---- MODULE Spec2Model ----
(***************************************************************************)
(* Frame scoring engine of helpmebowl: src/lib/bowling.ts (the first,      *)
(* forward-resolving version, lines 1-419) and the roll editing handlers   *)
(* of the frame-by-frame page and of the game-detail page.                 *)
(***************************************************************************)
EXTENDS Integers, Sequences, FiniteSets, TLC

VARIABLES
    page,          \* which page component owns the frames state
    frames,        \* React state `frames`: the ten Frame objects being edited
    lastCall       \* the last call made (history): what became of the last
                   \* handleRollChange call on a page, or the arguments and the
                   \* result of the validateRoll call made on its own

vars == <<page, frames, lastCall>>

\* `null` of the Frame interface (number | null): a value outside every
\* roll and every score.
null == -1000

NumFrames == 10
FrameIdx == 0..(NumFrames - 1)

\* Pin counts the user types; the whole range 0..10 is used wherever a
\* definition quantifies over rolls instead of storing them.
RollValues == {3, 7, 10}
AllRolls == 0..10
\* The frames whose inputs the modelled user touches: the first frame and
\* the last three, so that a strike can be followed by frames i+1 and i+2
\* below the tenth frame (7, 8, 9), by the tenth frame alone (8, 9), and by
\* a run of empty frames (0, then 7).
EditFrames == {0, 7, 8, 9}

\* Bound on the number of rolls recorded in the ten frames.
MaxRolls == 3

\* Bound on the number of balls below ten pins in a game bowled in order.
MaxMisses == 5

\* How far below 0 and above 10 the values handed to validateRoll reach.
RollMargin == 1

----------------------------------------------------------------------------
(* Frame objects *)

EmptyFrame ==
    [firstRoll |-> null, secondRoll |-> null, thirdRoll |-> null,
     isStrike |-> FALSE, isSpare |-> FALSE, isOpen |-> FALSE,
     score |-> null, frameScore |-> null]

InitialFrames == [i \in FrameIdx |-> EmptyFrame]

\* JavaScript `x || 0` on a number-or-null.
OrZero(x) == IF x = null THEN 0 ELSE x

----------------------------------------------------------------------------
(* validateRoll, bowling.ts 181-212 *)

\* Variant of validateRoll whose range test forgets the upper limit.
validateRollNoUpper(roll, frameIndex, rollNumber, previousRoll) ==
    IF roll < 0 THEN FALSE
    ELSE IF rollNumber = 1 THEN TRUE
    ELSE IF previousRoll = null THEN FALSE
    ELSE IF frameIndex = 9 /\ previousRoll = 10 THEN roll >= 0 /\ roll <= 10
    ELSE IF frameIndex = 9 /\ previousRoll < 10 THEN roll >= 0 /\ roll <= 10 - previousRoll
    ELSE IF frameIndex < 9 THEN roll >= 0 /\ roll <= 10 - previousRoll
    ELSE TRUE

validateRoll(roll, frameIndex, rollNumber, previousRoll) ==
    IF roll < 0 \/ roll > 10 THEN FALSE
    ELSE IF rollNumber = 1 THEN TRUE
    ELSE IF previousRoll = null THEN FALSE
    ELSE IF frameIndex = 9 /\ previousRoll = 10 THEN roll >= 0 /\ roll <= 10
    ELSE IF frameIndex = 9 /\ previousRoll < 10 THEN roll >= 0 /\ roll <= 10 - previousRoll
    ELSE IF frameIndex < 9 THEN roll >= 0 /\ roll <= 10 - previousRoll
    ELSE TRUE

----------------------------------------------------------------------------
(* getGameStateFromFrames, bowling.ts 218-419 *)

\* Lines 236-263: the frame types are set from the rolls; a frame whose
\* rolls match none of the branches keeps the flags it came in with.
classifyFrame(frame, i) ==
    IF frame.firstRoll # null
    THEN IF frame.firstRoll = 10 /\ i < 9
         THEN [frame EXCEPT !.isStrike = TRUE, !.isSpare = FALSE, !.isOpen = FALSE]
         ELSE IF i = 9 /\ frame.firstRoll = 10
         THEN [frame EXCEPT !.isStrike = TRUE, !.isSpare = FALSE, !.isOpen = FALSE]
         ELSE IF frame.secondRoll # null
         THEN IF frame.firstRoll + frame.secondRoll = 10
              THEN [frame EXCEPT !.isStrike = FALSE, !.isSpare = TRUE, !.isOpen = FALSE]
              ELSE [frame EXCEPT !.isStrike = FALSE, !.isSpare = FALSE, !.isOpen = TRUE]
         ELSE frame
    ELSE frame

\* Variant of strikeLookahead without the `else if (i === 8)` branch: a
\* strike in the ninth frame followed by a strike never gets its second
\* bonus ball.
RECURSIVE strikeLookaheadNoTenth(_, _, _, _, _)
strikeLookaheadNoTenth(gs, i, j, rolls, bonus) ==
    IF ~(j < 9 - i /\ rolls < 2)
    THEN [rolls |-> rolls, bonus |-> bonus]
    ELSE LET nextFrame == gs[i + 1 + j] IN
         IF nextFrame.firstRoll # null
         THEN LET r1 == rolls + 1
                  b1 == bonus + nextFrame.firstRoll
              IN  IF r1 >= 2 THEN [rolls |-> r1, bonus |-> b1]
                  ELSE IF nextFrame.isStrike
                  THEN IF j + 1 < 9 - i /\ gs[i + 2 + j].firstRoll # null
                       THEN [rolls |-> r1 + 1, bonus |-> b1 + gs[i + 2 + j].firstRoll]
                       ELSE [rolls |-> r1, bonus |-> b1]
                  ELSE IF nextFrame.secondRoll # null
                  THEN strikeLookaheadNoTenth(gs, i, j + 1, r1 + 1, b1 + nextFrame.secondRoll)
                  ELSE strikeLookaheadNoTenth(gs, i, j + 1, r1, b1)
         ELSE strikeLookaheadNoTenth(gs, i, j + 1, rolls, bonus)

\* Lines 299-326 and 356-388: the two loops over nextFrames walk the same
\* way, one counting the bonus rolls and one adding them up.  j indexes
\* nextFrames = gameState.slice(i + 1), so nextFrames[j] is frame i + 1 + j.
RECURSIVE strikeLookahead(_, _, _, _, _)
strikeLookahead(gs, i, j, rolls, bonus) ==
    IF ~(j < 9 - i /\ rolls < 2)
    THEN [rolls |-> rolls, bonus |-> bonus]
    ELSE LET nextFrame == gs[i + 1 + j] IN
         IF nextFrame.firstRoll # null
         THEN LET r1 == rolls + 1
                  b1 == bonus + nextFrame.firstRoll
              IN  IF r1 >= 2 THEN [rolls |-> r1, bonus |-> b1]
                  ELSE IF nextFrame.isStrike
                  THEN IF j + 1 < 9 - i
                       THEN IF gs[i + 2 + j].firstRoll # null
                            THEN [rolls |-> r1 + 1, bonus |-> b1 + gs[i + 2 + j].firstRoll]
                            ELSE [rolls |-> r1, bonus |-> b1]
                       ELSE IF i = 8
                       THEN IF nextFrame.secondRoll # null
                            THEN [rolls |-> r1 + 1, bonus |-> b1 + nextFrame.secondRoll]
                            ELSE [rolls |-> r1, bonus |-> b1]
                       ELSE [rolls |-> r1, bonus |-> b1]
                  ELSE IF nextFrame.secondRoll # null
                  THEN strikeLookahead(gs, i, j + 1, r1 + 1, b1 + nextFrame.secondRoll)
                  ELSE strikeLookahead(gs, i, j + 1, r1, b1)
         ELSE strikeLookahead(gs, i, j + 1, rolls, bonus)

\* Variant of canCalculateScore that scores a spare as soon as it is made,
\* without waiting for the next roll.
canCalculateScoreSpareEarly(gs, i) ==
    LET frame == gs[i] IN
    IF i = 9
    THEN \/ frame.isStrike /\ frame.secondRoll # null /\ frame.thirdRoll # null
         \/ frame.isSpare /\ frame.thirdRoll # null
         \/ frame.isOpen /\ frame.firstRoll # null /\ frame.secondRoll # null
    ELSE IF frame.isStrike THEN strikeLookahead(gs, i, 0, 0, 0).rolls >= 2
         ELSE IF frame.isSpare THEN TRUE
         ELSE frame.isOpen /\ frame.firstRoll # null /\ frame.secondRoll # null

\* Variant of canCalculateScore whose strike also waits for the score of the
\* frame after it, so that a strike is scored one pass later than that frame.
canCalculateScoreAfterNext(gs, i) ==
    LET frame == gs[i] IN
    IF i = 9
    THEN \/ frame.isStrike /\ frame.secondRoll # null /\ frame.thirdRoll # null
         \/ frame.isSpare /\ frame.thirdRoll # null
         \/ frame.isOpen /\ frame.firstRoll # null /\ frame.secondRoll # null
    ELSE IF frame.isStrike
         THEN strikeLookahead(gs, i, 0, 0, 0).rolls >= 2 /\ gs[i + 1].score # null
         ELSE IF frame.isSpare THEN gs[i + 1].firstRoll # null
         ELSE frame.isOpen /\ frame.firstRoll # null /\ frame.secondRoll # null

\* Lines 284-337.
canCalculateScore(gs, i) ==
    LET frame == gs[i] IN
    IF i = 9
    THEN \/ frame.isStrike /\ frame.secondRoll # null /\ frame.thirdRoll # null
         \/ frame.isSpare /\ frame.thirdRoll # null
         \/ frame.isOpen /\ frame.firstRoll # null /\ frame.secondRoll # null
    ELSE IF frame.isStrike THEN strikeLookahead(gs, i, 0, 0, 0).rolls >= 2
         ELSE IF frame.isSpare THEN gs[i + 1].firstRoll # null
         ELSE frame.isOpen /\ frame.firstRoll # null /\ frame.secondRoll # null

\* Variant of computeFrameScore whose tenth-frame spare repeats the strike
\* line and counts the second roll twice.
computeFrameScoreSpareTwice(gs, i) ==
    LET frame == gs[i] IN
    IF i = 9
    THEN IF frame.isStrike THEN 10 + OrZero(frame.secondRoll) + OrZero(frame.thirdRoll)
         ELSE IF frame.isSpare THEN 10 + OrZero(frame.secondRoll) + OrZero(frame.thirdRoll)
         ELSE OrZero(frame.firstRoll) + OrZero(frame.secondRoll)
    ELSE IF frame.isStrike THEN 10 + strikeLookahead(gs, i, 0, 0, 0).bonus
         ELSE IF frame.isSpare
         THEN IF gs[i + 1].firstRoll # null THEN 10 + gs[i + 1].firstRoll ELSE 10
         ELSE IF frame.isOpen THEN OrZero(frame.firstRoll) + OrZero(frame.secondRoll)
         ELSE 0

\* Variant of computeFrameScore that leaves the third ball out of a tenth
\* frame opened with a strike.
computeFrameScoreTenthShort(gs, i) ==
    LET frame == gs[i] IN
    IF i = 9
    THEN IF frame.isStrike THEN 10 + OrZero(frame.secondRoll)
         ELSE IF frame.isSpare THEN 10 + OrZero(frame.thirdRoll)
         ELSE OrZero(frame.firstRoll) + OrZero(frame.secondRoll)
    ELSE IF frame.isStrike THEN 10 + strikeLookahead(gs, i, 0, 0, 0).bonus
         ELSE IF frame.isSpare
         THEN IF gs[i + 1].firstRoll # null THEN 10 + gs[i + 1].firstRoll ELSE 10
         ELSE IF frame.isOpen THEN OrZero(frame.firstRoll) + OrZero(frame.secondRoll)
         ELSE 0

\* Lines 340-398 (thirdRoll ?? 0 and x || 0 both turn null into 0).
computeFrameScore(gs, i) ==
    LET frame == gs[i] IN
    IF i = 9
    THEN IF frame.isStrike THEN 10 + OrZero(frame.secondRoll) + OrZero(frame.thirdRoll)
         ELSE IF frame.isSpare THEN 10 + OrZero(frame.thirdRoll)
         ELSE OrZero(frame.firstRoll) + OrZero(frame.secondRoll)
    ELSE IF frame.isStrike THEN 10 + strikeLookahead(gs, i, 0, 0, 0).bonus
         ELSE IF frame.isSpare
         THEN IF gs[i + 1].firstRoll # null THEN 10 + gs[i + 1].firstRoll ELSE 10
         ELSE IF frame.isOpen THEN OrZero(frame.firstRoll) + OrZero(frame.secondRoll)
         ELSE 0

\* Lines 400-409: the nearest earlier frame that has a score, else 0.
RECURSIVE prevCumulative(_, _)
prevCumulative(gs, k) ==
    IF k < 0 THEN 0
    ELSE IF gs[k].score # null THEN OrZero(gs[k].score)
    ELSE prevCumulative(gs, k - 1)

\* Lines 273-414: the body of the for loop for one frame.
scoreFrame(gs, i) ==
    IF gs[i].score # null THEN gs
    ELSE IF canCalculateScore(gs, i)
    THEN [gs EXCEPT ![i].frameScore = computeFrameScore(gs, i),
                    ![i].score = prevCumulative(gs, i - 1) + computeFrameScore(gs, i)]
    ELSE gs

\* Lines 272-415: one pass of the for loop, frames i..9 in order.
RECURSIVE scorePass(_, _)
scorePass(gs, i) ==
    IF i > 9 THEN gs ELSE scorePass(scoreFrame(gs, i), i + 1)

\* Lines 268-416: `changed` is set exactly when a frame got a score in the
\* pass, that is when the pass altered gameState.
RECURSIVE scoreLoop(_)
scoreLoop(gs) ==
    LET after == scorePass(gs, 0) IN
    IF after # gs THEN scoreLoop(after) ELSE after

\* Variant of getGameStateFromFrames whose copy of the input keeps score
\* but not frameScore.
getGameStateDroppingFrameScore(fs) ==
    scoreLoop([i \in FrameIdx |-> [classifyFrame(fs[i], i) EXCEPT !.frameScore = null]])

\* Lines 218-419; frames always holds ten entries, so the copy of lines
\* 230-233 replaces every default frame.
getGameStateFromFrames(fs) ==
    scoreLoop([i \in FrameIdx |-> classifyFrame(fs[i], i)])

----------------------------------------------------------------------------
(* calculateMaxScore, bowling.ts 22-79 *)

\* Variant of baseScoreOf that stops at the first frame with a score instead
\* of the last one.
baseScoreOfFirst(gs, i) ==
    IF \E k \in 0..i : gs[k].score # null
    THEN gs[CHOOSE k \in 0..i : gs[k].score # null /\ \A l \in 0..(k - 1) : gs[l].score = null].score
    ELSE 0

\* Lines 24-29: the score of the last frame below currentFrame that has one.
RECURSIVE baseScoreOf(_, _)
baseScoreOf(gs, i) ==
    IF i < 0 THEN 0
    ELSE IF gs[i].score # null THEN OrZero(gs[i].score)
    ELSE baseScoreOf(gs, i - 1)

\* Variant of calculateMaxScore that counts one frame too many as remaining.
calculateMaxScoreOneMore(gs, cur) ==
    LET baseScore == baseScoreOf(gs, cur - 1)
        frame10 == gs[9]
    IN  IF cur = 9
        THEN IF frame10.score # null THEN frame10.score
             ELSE IF frame10.isStrike /\ frame10.secondRoll # null /\ frame10.thirdRoll # null
             THEN baseScore + 10 + frame10.secondRoll + frame10.thirdRoll
             ELSE IF frame10.isStrike /\ frame10.secondRoll # null
             THEN baseScore + 10 + frame10.secondRoll + 10
             ELSE IF frame10.isStrike THEN baseScore + 30
             ELSE IF frame10.isSpare /\ frame10.thirdRoll # null
             THEN baseScore + 10 + frame10.thirdRoll
             ELSE IF frame10.isSpare THEN baseScore + 20
             ELSE IF frame10.firstRoll # null /\ frame10.secondRoll # null
             THEN baseScore + frame10.firstRoll + frame10.secondRoll
             ELSE IF frame10.firstRoll # null
             THEN baseScore + (10 - frame10.firstRoll) + frame10.firstRoll + 10
             ELSE baseScore + 30
        ELSE IF 10 - cur = 0 THEN baseScore
        ELSE baseScore + (10 - cur + 1) * 30

\* Variant of calculateMaxScore that grants a tenth-frame spare a full 30.
calculateMaxScoreSpareThirty(gs, cur) ==
    LET baseScore == baseScoreOf(gs, cur - 1)
        frame10 == gs[9]
    IN  IF cur = 9
        THEN IF frame10.score # null THEN frame10.score
             ELSE IF frame10.isStrike /\ frame10.secondRoll # null /\ frame10.thirdRoll # null
             THEN baseScore + 10 + frame10.secondRoll + frame10.thirdRoll
             ELSE IF frame10.isStrike /\ frame10.secondRoll # null
             THEN baseScore + 10 + frame10.secondRoll + 10
             ELSE IF frame10.isStrike THEN baseScore + 30
             ELSE IF frame10.isSpare /\ frame10.thirdRoll # null
             THEN baseScore + 10 + frame10.thirdRoll
             ELSE IF frame10.isSpare THEN baseScore + 30
             ELSE IF frame10.firstRoll # null /\ frame10.secondRoll # null
             THEN baseScore + frame10.firstRoll + frame10.secondRoll
             ELSE IF frame10.firstRoll # null
             THEN baseScore + (10 - frame10.firstRoll) + frame10.firstRoll + 10
             ELSE baseScore + 30
        ELSE IF 10 - cur = 0 THEN baseScore
        ELSE baseScore + (10 - cur) * 30

calculateMaxScore(gs, cur) ==
    LET baseScore == baseScoreOf(gs, cur - 1)
        frame10 == gs[9]
    IN  IF cur = 9
        THEN IF frame10.score # null THEN frame10.score
             ELSE IF frame10.isStrike /\ frame10.secondRoll # null /\ frame10.thirdRoll # null
             THEN baseScore + 10 + frame10.secondRoll + frame10.thirdRoll
             ELSE IF frame10.isStrike /\ frame10.secondRoll # null
             THEN baseScore + 10 + frame10.secondRoll + 10
             ELSE IF frame10.isStrike THEN baseScore + 30
             ELSE IF frame10.isSpare /\ frame10.thirdRoll # null
             THEN baseScore + 10 + frame10.thirdRoll
             ELSE IF frame10.isSpare THEN baseScore + 20
             ELSE IF frame10.firstRoll # null /\ frame10.secondRoll # null
             THEN baseScore + frame10.firstRoll + frame10.secondRoll
             ELSE IF frame10.firstRoll # null
             THEN baseScore + (10 - frame10.firstRoll) + frame10.firstRoll + 10
             ELSE baseScore + 30
        ELSE IF 10 - cur = 0 THEN baseScore
        ELSE baseScore + (10 - cur) * 30

----------------------------------------------------------------------------
(* The pages: frame-by-frame/page.tsx and [id]/page.tsx *)

FrameByFrame == "frame-by-frame"
Detail == "detail"

\* The strings an input hands to handleRollChange: '' clears the roll, the
\* number inputs and the selects give decimal strings, and the selects of
\* the game-detail page also give 'X' and '/'.
NumberStrings == {ToString(n) : n \in RollValues \cup {-1, 11}}
InputStrings == {""} \cup NumberStrings \cup {"X", "/"}

\* The strings typed when a game is bowled from the first ball to the last:
\* a gutter ball or all ten pins, which give open, spare and strike frames.
BowlValues == {0, 10}
BowlStrings == {ToString(n) : n \in BowlValues}

\* parseInt on the decimal strings above.
ParsedNumber ==
    [str \in NumberStrings \cup BowlStrings |-> CHOOSE n \in -1..11 : ToString(n) = str]
parseInt(value) == ParsedNumber[value]

\* frame-by-frame/page.tsx 81: numValue.  The number inputs never hold 'X'
\* or '/'.
numValueFrameByFrame(value) == IF value = "" THEN null ELSE parseInt(value)

\* frame-by-frame/page.tsx 83-85: the return before setFrames.
returnsFrameByFrame(value) ==
    LET numValue == numValueFrameByFrame(value) IN
    numValue # null /\ (numValue < 0 \/ numValue > 10)

\* [id]/page.tsx 123-142: the returns before setFrames.
returnsDetail(fs, frameIndex, rollNumber, value) ==
    IF value = "" \/ value = "X" THEN FALSE
    ELSE IF value = "/" THEN ~(rollNumber = 2 /\ fs[frameIndex].firstRoll # null)
    ELSE ~(parseInt(value) >= 0 /\ parseInt(value) <= 10)

\* [id]/page.tsx 123-142: numValue when the handler goes on to setFrames.
numValueDetail(fs, frameIndex, rollNumber, value) ==
    IF value = "" THEN null
    ELSE IF value = "X" THEN 10
    ELSE IF value = "/" THEN 10 - fs[frameIndex].firstRoll
    ELSE parseInt(value)

\* Variant of setFramesFrameByFrame that stores the second roll without
\* asking validateRoll.
setFramesUnvalidated(prevFrames, frameIndex, rollNumber, numValue) ==
    LET frame == prevFrames[frameIndex] IN
    IF rollNumber = 1
    THEN [prevFrames EXCEPT ![frameIndex] =
            IF numValue = 10 /\ frameIndex < 9
            THEN [frame EXCEPT !.firstRoll = numValue, !.secondRoll = null]
            ELSE [frame EXCEPT !.firstRoll = numValue]]
    ELSE IF rollNumber = 2
    THEN IF frame.firstRoll = null THEN prevFrames
         ELSE [prevFrames EXCEPT ![frameIndex] =
                 IF frameIndex = 9 /\ frame.firstRoll + OrZero(numValue) < 10
                 THEN [frame EXCEPT !.secondRoll = numValue, !.thirdRoll = null]
                 ELSE [frame EXCEPT !.secondRoll = numValue]]
    ELSE IF frameIndex # 9 THEN prevFrames
         ELSE IF frame.secondRoll = null THEN prevFrames
         ELSE [prevFrames EXCEPT ![frameIndex].thirdRoll = numValue]

\* frame-by-frame/page.tsx 87-116: the updater passed to setFrames.
setFramesFrameByFrame(prevFrames, frameIndex, rollNumber, numValue) ==
    LET frame == prevFrames[frameIndex] IN
    IF rollNumber = 1
    THEN [prevFrames EXCEPT ![frameIndex] =
            IF numValue = 10 /\ frameIndex < 9
            THEN [frame EXCEPT !.firstRoll = numValue, !.secondRoll = null]
            ELSE [frame EXCEPT !.firstRoll = numValue]]
    ELSE IF rollNumber = 2
    THEN IF frame.firstRoll = null THEN prevFrames
         ELSE IF numValue # null /\ ~validateRoll(numValue, frameIndex, 2, frame.firstRoll)
         THEN prevFrames
         ELSE [prevFrames EXCEPT ![frameIndex] =
                 IF frameIndex = 9 /\ frame.firstRoll + OrZero(numValue) < 10
                 THEN [frame EXCEPT !.secondRoll = numValue, !.thirdRoll = null]
                 ELSE [frame EXCEPT !.secondRoll = numValue]]
    ELSE IF frameIndex # 9 THEN prevFrames
         ELSE IF frame.secondRoll = null THEN prevFrames
         ELSE [prevFrames EXCEPT ![frameIndex].thirdRoll = numValue]

\* [id]/page.tsx 144-177: the updater passed to setFrames.
setFramesDetail(prevFrames, frameIndex, rollNumber, numValue) ==
    LET frame == prevFrames[frameIndex] IN
    IF rollNumber = 1
    THEN [prevFrames EXCEPT ![frameIndex] =
            IF numValue = 10 /\ frameIndex < 9
            THEN [frame EXCEPT !.firstRoll = numValue, !.secondRoll = null]
            ELSE [frame EXCEPT !.firstRoll = numValue]]
    ELSE IF rollNumber = 2
    THEN IF frame.firstRoll = null THEN prevFrames
         ELSE IF frameIndex = 9 /\ frame.firstRoll = 10
                 /\ numValue # null /\ (numValue < 0 \/ numValue > 10)
         THEN prevFrames
         ELSE IF ~(frameIndex = 9 /\ frame.firstRoll = 10)
                 /\ numValue # null /\ ~validateRoll(numValue, frameIndex, 2, frame.firstRoll)
         THEN prevFrames
         ELSE [prevFrames EXCEPT ![frameIndex] =
                 IF frameIndex = 9 /\ frame.firstRoll # null /\ numValue # null
                    /\ frame.firstRoll + numValue < 10
                 THEN [frame EXCEPT !.secondRoll = numValue, !.thirdRoll = null]
                 ELSE [frame EXCEPT !.secondRoll = numValue]]
    ELSE IF frameIndex # 9 THEN prevFrames
         ELSE IF frame.secondRoll = null THEN prevFrames
         ELSE IF numValue # null /\ (numValue < 0 \/ numValue > 10) THEN prevFrames
         ELSE [prevFrames EXCEPT ![frameIndex].thirdRoll = numValue]

\* frame-by-frame/page.tsx 43-71: the first incomplete frame, 10 if none.
RECURSIVE incompleteFrameFrom(_, _)
incompleteFrameFrom(gs, i) ==
    IF i > 9 THEN 10
    ELSE LET frame == gs[i] IN
         IF frame.firstRoll = null THEN i
         ELSE IF i = 9
         THEN IF frame.isStrike /\ (frame.secondRoll = null \/ frame.thirdRoll = null) THEN i
              ELSE IF frame.isSpare /\ frame.thirdRoll = null THEN i
              ELSE IF ~frame.isStrike /\ ~frame.isSpare /\ frame.secondRoll = null THEN i
              ELSE incompleteFrameFrom(gs, i + 1)
         ELSE IF frame.isStrike \/ (frame.firstRoll # null /\ frame.secondRoll # null)
              THEN incompleteFrameFrom(gs, i + 1)
              ELSE i

\* Number of rolls recorded in the frames state.
RollsIn(frame) ==
    (IF frame.firstRoll # null THEN 1 ELSE 0)
    + (IF frame.secondRoll # null THEN 1 ELSE 0)
    + (IF frame.thirdRoll # null THEN 1 ELSE 0)

RECURSIVE RollCountFrom(_, _)
RollCountFrom(fs, i) ==
    IF i > 9 THEN 0 ELSE RollsIn(fs[i]) + RollCountFrom(fs, i + 1)

RollCount(fs) == RollCountFrom(fs, 0)

\* What became of a handleRollChange call: "out_of_range" when the roll is
\* below 0 or above 10, "invalid" when validateRoll refuses it, "other" for
\* the remaining returns and for the calls that go through.
callOutcome(fs, frameIndex, rollNumber, value, returns, numValue) ==
    IF returns THEN (IF value = "/" THEN "other" ELSE "out_of_range")
    ELSE IF rollNumber = 2 /\ fs[frameIndex].firstRoll # null /\ numValue # null
            /\ ~validateRoll(numValue, frameIndex, 2, fs[frameIndex].firstRoll)
    THEN "invalid"
    ELSE "other"

\* The useEffect on [frames] of both pages (frame-by-frame/page.tsx 39-42,
\* [id]/page.tsx 59-64) keeps gameState equal to the resolution of frames.
gameState == getGameStateFromFrames(frames)

\* frame-by-frame/page.tsx 72-73.
currentFrame == incompleteFrameFrom(gameState, 0)
maxScore == calculateMaxScore(gameState, currentFrame)

Init ==
    /\ page \in {FrameByFrame, Detail}
    /\ frames = InitialFrames
    /\ lastCall = "none"

\* frame-by-frame/page.tsx 76-117.
handleRollChangeFrameByFrame(frameIndex, rollNumber, value) ==
    /\ page = FrameByFrame
    /\ value \notin {"X", "/"}
    /\ LET returns == returnsFrameByFrame(value)
           numValue == numValueFrameByFrame(value)
           newFrames == IF returns THEN frames
                        ELSE setFramesFrameByFrame(frames, frameIndex, rollNumber, numValue)
       IN  /\ RollCount(newFrames) <= MaxRolls
           /\ frames' = newFrames
           /\ lastCall' = callOutcome(frames, frameIndex, rollNumber, value, returns, numValue)
    /\ UNCHANGED page

\* [id]/page.tsx 118-178.
handleRollChangeDetail(frameIndex, rollNumber, value) ==
    /\ page = Detail
    /\ LET returns == returnsDetail(frames, frameIndex, rollNumber, value)
           numValue == numValueDetail(frames, frameIndex, rollNumber, value)
           newFrames == IF returns THEN frames
                        ELSE setFramesDetail(frames, frameIndex, rollNumber, numValue)
       IN  /\ RollCount(newFrames) <= MaxRolls
           /\ frames' = newFrames
           /\ lastCall' = callOutcome(frames, frameIndex, rollNumber, value, returns, numValue)
    /\ UNCHANGED page

Next ==
    \/ \E f \in EditFrames, r \in 1..3, v \in InputStrings : handleRollChangeFrameByFrame(f, r, v)
    \/ \E f \in EditFrames, r \in 1..3, v \in InputStrings : handleRollChangeDetail(f, r, v)

Spec == Init /\ [][Next]_vars

----------------------------------------------------------------------------
(* The game-detail page opened on a game saved by the frame-by-frame page *)

\* frame-by-frame/page.tsx 119-125: the score of the last frame that has one.
RECURSIVE lastScoreFrom(_, _)
lastScoreFrom(gs, i) ==
    IF i < 0 THEN 0
    ELSE IF gs[i].score # null THEN OrZero(gs[i].score)
    ELSE lastScoreFrom(gs, i - 1)

getCurrentScore(gs) == lastScoreFrom(gs, 9)

\* frame-by-frame/page.tsx 127-134.
isGameComplete(gs) ==
    LET frame10 == gs[9] IN
    IF frame10.firstRoll = null THEN FALSE
    ELSE IF frame10.isStrike \/ frame10.isSpare THEN frame10.thirdRoll # null
    ELSE frame10.secondRoll # null

\* frame-by-frame/page.tsx 158-163: the frame_scores column handleSave
\* inserts.
frameScoresOf(gs) ==
    [i \in FrameIdx |-> [first |-> gs[i].firstRoll, second |-> gs[i].secondRoll,
                         third |-> gs[i].thirdRoll, score |-> gs[i].score]]

\* Frames states of the frame-by-frame page from which games are saved:
\* an open tenth frame, after an empty or a strike ninth frame.
SavedNinth == {<<null, null, null>>, <<10, null, null>>}
SavedTenth == {<<3, 3, null>>}

withRolls(rolls) ==
    [EmptyFrame EXCEPT !.firstRoll = rolls[1], !.secondRoll = rolls[2], !.thirdRoll = rolls[3]]

SavedLayouts ==
    {[InitialFrames EXCEPT ![8] = withRolls(ninth), ![9] = withRolls(tenth)] :
        ninth \in SavedNinth, tenth \in SavedTenth}

\* frame-by-frame/page.tsx 136-147: handleSave inserts only a complete game
\* with a score other than 0.
StoredGames ==
    {frameScoresOf(getGameStateFromFrames(fs)) :
        fs \in {l \in SavedLayouts :
                  /\ RollCount(l) <= MaxRolls
                  /\ isGameComplete(getGameStateFromFrames(l))
                  /\ getCurrentScore(getGameStateFromFrames(l)) # 0}}

\* [id]/page.tsx 98-107.
loadedFrame(fs) ==
    [firstRoll |-> fs.first, secondRoll |-> fs.second, thirdRoll |-> fs.third,
     isStrike |-> fs.first = 10,
     isSpare |-> fs.first # null /\ fs.second # null /\ fs.first # 10
                 /\ fs.first + fs.second = 10,
     isOpen |-> fs.first # null /\ fs.second # null /\ fs.first # 10
                /\ fs.first + fs.second < 10,
     score |-> fs.score, frameScore |-> null]

InitStored ==
    /\ page = Detail
    /\ frames = InitialFrames
    /\ lastCall = "none"

\* [id]/page.tsx 55-57 and 66-116: the effect on [gameId] loads the stored
\* game once, when the page is mounted.
loadGame(data) ==
    /\ page = Detail
    /\ frames = InitialFrames /\ lastCall = "none"
    /\ frames' = [i \in FrameIdx |-> loadedFrame(data[i])]
    /\ UNCHANGED <<page, lastCall>>

NextStored ==
    \/ \E data \in StoredGames : loadGame(data)
    \/ \E f \in EditFrames, r \in 1..3, v \in InputStrings : handleRollChangeDetail(f, r, v)

SpecStored == InitStored /\ [][NextStored]_vars

----------------------------------------------------------------------------
(* A game entered in bowling order on the frame-by-frame page *)

InitBowl ==
    /\ page = FrameByFrame
    /\ frames = InitialFrames
    /\ lastCall = "none"

\* The first empty input of a frame (frame-by-frame/page.tsx 249-322).
nextRollNumber(frame) ==
    IF frame.firstRoll = null THEN 1
    ELSE IF frame.secondRoll = null THEN 2
    ELSE 3

\* Number of recorded rolls below ten pins.
MissesIn(frame) ==
    (IF frame.firstRoll # null /\ frame.firstRoll < 10 THEN 1 ELSE 0)
    + (IF frame.secondRoll # null /\ frame.secondRoll < 10 THEN 1 ELSE 0)
    + (IF frame.thirdRoll # null /\ frame.thirdRoll < 10 THEN 1 ELSE 0)

RECURSIVE MissCountFrom(_, _)
MissCountFrom(fs, i) ==
    IF i > 9 THEN 0 ELSE MissesIn(fs[i]) + MissCountFrom(fs, i + 1)

MissCount(fs) == MissCountFrom(fs, 0)

\* handleRollChange (frame-by-frame/page.tsx 76-117) called from the next
\* empty input of the current frame with a value the handler records.
bowl(value) ==
    /\ page = FrameByFrame
    /\ currentFrame < 10
    /\ MissCount(frames) + (IF parseInt(value) < 10 THEN 1 ELSE 0) <= MaxMisses
    /\ LET frameIndex == currentFrame
           rollNumber == nextRollNumber(frames[frameIndex])
           returns == returnsFrameByFrame(value)
           numValue == numValueFrameByFrame(value)
           newFrames == IF returns THEN frames
                        ELSE setFramesFrameByFrame(frames, frameIndex, rollNumber, numValue)
       IN  /\ newFrames # frames
           /\ frames' = newFrames
           /\ lastCall' = callOutcome(frames, frameIndex, rollNumber, value, returns, numValue)
    /\ UNCHANGED page

NextBowl == \E value \in BowlStrings : bowl(value)

SpecBowl == InitBowl /\ [][NextBowl]_vars

----------------------------------------------------------------------------
(* Saving on the frame-by-frame page *)

\* The pages handleSave leaves for.
GamesList == "games"
Login == "login"

\* What the collaborators answer to handleSave: no signed-in user, an error
\* from the insert, or the row inserted.
SaveResponses == {"no_user", "insert_error", "inserted"}

InitSave ==
    /\ page = FrameByFrame
    /\ frames = InitialFrames
    /\ lastCall = "none"

\* frame-by-frame/page.tsx 136-179.  The row inserted holds
\* getCurrentScore() as score and frameScoresOf(gameState) as frame_scores;
\* frames is left as it is.
handleSave(response) ==
    /\ page = FrameByFrame
    /\ LET gs == gameState IN
       IF ~isGameComplete(gs)
       THEN lastCall' = "refused_incomplete" /\ page' = page
       ELSE IF getCurrentScore(gs) = 0
       THEN lastCall' = "refused_zero" /\ page' = page
       ELSE IF response = "no_user"
       THEN lastCall' = "no_user" /\ page' = Login
       ELSE IF response = "insert_error"
       THEN lastCall' = "insert_error" /\ page' = page
       ELSE lastCall' = "inserted" /\ page' = GamesList
    /\ UNCHANGED frames

\* The frames edited before saving, and the bound on the rolls they hold.
SaveEditFrames == {8, 9}
MaxSaveRolls == 5

\* handleRollChange (frame-by-frame/page.tsx 76-117) on the frames above.
handleRollChangeBeforeSave(frameIndex, rollNumber, value) ==
    /\ page = FrameByFrame
    /\ value \notin {"X", "/"}
    /\ LET returns == returnsFrameByFrame(value)
           numValue == numValueFrameByFrame(value)
           newFrames == IF returns THEN frames
                        ELSE setFramesFrameByFrame(frames, frameIndex, rollNumber, numValue)
       IN  /\ RollCount(newFrames) <= MaxSaveRolls
           /\ frames' = newFrames
           /\ lastCall' = callOutcome(frames, frameIndex, rollNumber, value, returns, numValue)
    /\ UNCHANGED page

NextSave ==
    \/ \E f \in SaveEditFrames, r \in 1..3, v \in InputStrings :
          handleRollChangeBeforeSave(f, r, v)
    \/ \E response \in SaveResponses : handleSave(response)

SpecSave == InitSave /\ [][NextSave]_vars

----------------------------------------------------------------------------
(* The OCR review page: ocr/page.tsx, the version from line 1201 on *)

Ocr == "ocr"

\* extractedFrames is null until a bowler is selected.
NoFrames == << >>

\* The tokens 'X' and '/' of individualBalls, which otherwise holds numbers.
BallX == -10
BallSlash == -20

\* The points a frame adds on the score sheets read from the photo.
FrameDeltas == {0, 7, 10, 15, 20, 30}

\* A score sheet whose frames add a and b points in turn: the cumulative
\* totals of frames 0..9.
cumulativeOf(a, b) ==
    [i \in FrameIdx |-> ((i + 2) \div 2) * a + ((i + 1) \div 2) * b]

\* One score sheet read with its individual balls: nine strikes, then 7 /
\* and a strike.
BallsSheet ==
    [k \in 1..10 |->
        IF k < 10 THEN [first |-> BallX, second |-> null, third |-> null]
        ELSE [first |-> 7, second |-> BallSlash, third |-> BallX]]

\* detectedBowlers, as parseBowlingScores leaves them (ocr/page.tsx
\* 1205-1211, 1670-1677): cumulative totals, and individual balls when the
\* sheet showed them (an empty list stands for undefined).
DetectedBowlers ==
    {[frameScores |-> cumulativeOf(a, b), individualBalls |-> << >>] :
        a \in FrameDeltas, b \in FrameDeltas}
    \cup {[frameScores |-> [i \in FrameIdx |-> IF i < 9 THEN 30 * (i + 1) - (IF i = 8 THEN 3 ELSE 0)
                                              ELSE 287],
           individualBalls |-> BallsSheet]}

\* ocr/page.tsx 1706-1727: the points a frame adds, 0 for a missing total,
\* negative differences raised to 0 and differences above 30 cut to 30.
framePoints(frameScores, i) ==
    IF frameScores[i] = null THEN 0
    ELSE LET previousScore == IF i > 0 /\ frameScores[i - 1] # null
                              THEN frameScores[i - 1] ELSE 0
             points == frameScores[i] - previousScore
         IN  IF points < 0 THEN 0 ELSE IF points > 30 THEN 30 ELSE points

\* Math.ceil(n * 0.55) and Math.ceil(n * 0.6) for n in 0..9.
ceil55(n) == (55 * n + 99) \div 100
ceil60(n) == (6 * n + 9) \div 10

Abs(n) == IF n < 0 THEN 0 - n ELSE n
Clip09(n) == IF n < 0 THEN 0 ELSE IF n > 9 THEN 9 ELSE n

\* ocr/page.tsx 1733-1802: the rolls guessed for a frame 0..8.
inferFrame(frame, frameScores, i) ==
    LET points == framePoints(frameScores, i)
        nextFramePoints == framePoints(frameScores, i + 1)
        bonus == points - 10
        strike == [frame EXCEPT !.firstRoll = 10, !.isStrike = TRUE]
    IN  IF points <= 0 THEN frame
        ELSE IF points >= 20 THEN strike
        ELSE IF points > 10
        THEN IF nextFramePoints > 0 /\ nextFramePoints < 10
             THEN IF bonus >= 1 /\ bonus <= 9
                     /\ (Abs(bonus - ceil60(nextFramePoints)) <= 2 \/ bonus = nextFramePoints)
                  THEN [frame EXCEPT !.firstRoll = bonus, !.secondRoll = 10 - bonus,
                                     !.isSpare = TRUE]
                  ELSE strike
             ELSE strike
        ELSE IF points = 10
        THEN [frame EXCEPT !.firstRoll = 5, !.secondRoll = 5, !.isSpare = TRUE]
        ELSE LET firstRoll == Clip09(ceil55(points)) IN
             [frame EXCEPT !.firstRoll = firstRoll,
                           !.secondRoll = IF points - firstRoll < 0 THEN 0 ELSE points - firstRoll,
                           !.isOpen = TRUE]

\* ocr/page.tsx 1804-1841: the rolls guessed for frame 9.
inferTenth(frame, frameScores) ==
    LET frame10Points == framePoints(frameScores, 9)
        remaining == frame10Points - 10
    IN  IF frame10Points <= 0 THEN frame
        ELSE IF frame10Points >= 20
        THEN IF remaining >= 10
             THEN [frame EXCEPT !.firstRoll = 10, !.isStrike = TRUE, !.secondRoll = 10,
                                !.thirdRoll = remaining - 10]
             ELSE [frame EXCEPT !.firstRoll = 10, !.isStrike = TRUE,
                                !.secondRoll = remaining \div 2,
                                !.thirdRoll = remaining - (remaining \div 2)]
        ELSE IF frame10Points = 10
        THEN [frame EXCEPT !.firstRoll = 5, !.secondRoll = 5, !.isSpare = TRUE, !.thirdRoll = 0]
        ELSE IF frame10Points > 10
        THEN [frame EXCEPT !.firstRoll = 10, !.isStrike = TRUE,
                           !.secondRoll = remaining \div 2,
                           !.thirdRoll = remaining - (remaining \div 2)]
        ELSE LET firstRoll == Clip09(ceil60(frame10Points)) IN
             [frame EXCEPT !.firstRoll = firstRoll, !.secondRoll = frame10Points - firstRoll,
                           !.isOpen = TRUE]

\* ocr/page.tsx 1703-1842.
inferRollsFromCumulative(fs, frameScores) ==
    [i \in FrameIdx |->
        IF i < 9 THEN inferFrame(fs[i], frameScores, i) ELSE inferTenth(fs[i], frameScores)]

\* ocr/page.tsx 1844-1856: score and frameScore are taken from the totals.
withTotals(frameScores) ==
    [i \in FrameIdx |->
        IF frameScores[i] = null THEN EmptyFrame
        ELSE LET previousScore == IF i > 0 /\ frameScores[i - 1] # null
                                  THEN frameScores[i - 1] ELSE 0
             IN  [EmptyFrame EXCEPT !.score = frameScores[i],
                                    !.frameScore = frameScores[i] - previousScore]]

\* ocr/page.tsx 1860-1861.
hasCompleteIndividualBalls(bowler) ==
    /\ Len(bowler.individualBalls) >= 10
    /\ \A k \in DOMAIN bowler.individualBalls : bowler.individualBalls[k].first # null

\* ocr/page.tsx 1867-1897: the rolls of a frame as read ball by ball.
ballsFrame(frame, ball, i) ==
    IF ball.first = BallX THEN [frame EXCEPT !.firstRoll = 10, !.isStrike = TRUE]
    ELSE IF ball.first = null THEN frame
    ELSE LET two ==
                 IF ball.second = BallSlash
                 THEN [frame EXCEPT !.firstRoll = ball.first, !.secondRoll = 10 - ball.first,
                                    !.isSpare = TRUE]
                 ELSE IF ball.second # null
                 THEN [frame EXCEPT !.firstRoll = ball.first, !.secondRoll = ball.second,
                                    !.isOpen = ball.first + ball.second < 10]
                 ELSE [frame EXCEPT !.firstRoll = ball.first]
         IN  IF i = 9 /\ ball.third # null
             THEN [two EXCEPT !.thirdRoll =
                      IF ball.third = BallX THEN 10
                      ELSE IF ball.third = BallSlash THEN 10 - OrZero(two.secondRoll)
                      ELSE ball.third]
             ELSE two

\* ocr/page.tsx 1686-1916: the frames handed to setExtractedFrames.  The
\* list of individual balls is indexed from 1 here.
extractFramesFromBowler(bowler) ==
    LET fs == withTotals(bowler.frameScores) IN
    IF hasCompleteIndividualBalls(bowler)
    THEN [i \in FrameIdx |-> ballsFrame(fs[i], bowler.individualBalls[i + 1], i)]
    ELSE inferRollsFromCumulative(fs, bowler.frameScores)

\* ocr/page.tsx 1971-1997: the updater handed to setExtractedFrames.
setFramesOcr(prevFrames, frameIndex, rollNumber, numValue) ==
    LET frame == prevFrames[frameIndex] IN
    IF rollNumber = 1
    THEN [prevFrames EXCEPT ![frameIndex] =
            IF numValue = 10 /\ frameIndex < 9
            THEN [frame EXCEPT !.firstRoll = numValue, !.secondRoll = null]
            ELSE [frame EXCEPT !.firstRoll = numValue]]
    ELSE IF rollNumber = 2
    THEN IF frame.firstRoll = null THEN prevFrames
         ELSE IF numValue # null /\ ~validateRoll(numValue, frameIndex, 2, frame.firstRoll)
         THEN prevFrames
         ELSE [prevFrames EXCEPT ![frameIndex] =
                 IF frameIndex = 9 /\ frame.firstRoll # null /\ numValue # null
                    /\ frame.firstRoll + numValue < 10
                 THEN [frame EXCEPT !.secondRoll = numValue, !.thirdRoll = null]
                 ELSE [frame EXCEPT !.secondRoll = numValue]]
    ELSE IF frameIndex # 9 THEN prevFrames
         ELSE IF frame.secondRoll = null THEN prevFrames
         ELSE IF numValue # null /\ (numValue < 0 \/ numValue > 10) THEN prevFrames
         ELSE [prevFrames EXCEPT ![frameIndex].thirdRoll = numValue]

\* The frame the inputs of the review page are used on.
OcrEditFrames == {9}

InitOcr ==
    /\ page = Ocr
    /\ frames = NoFrames
    /\ lastCall = [op |-> "none", frameIndex |-> null, changed |-> FALSE, bowler |-> << >>]

\* ocr/page.tsx 1918-1921, called from a bowler's button (2205-2210).
handleBowlerSelect(bowler) ==
    /\ page = Ocr
    /\ frames' = extractFramesFromBowler(bowler)
    /\ lastCall' = [op |-> "select", frameIndex |-> null, changed |-> FALSE, bowler |-> bowler]
    /\ UNCHANGED page

\* ocr/page.tsx 1943-1998; the value is parsed as on the game-detail page
\* (1952-1969 read like [id]/page.tsx 123-142).
handleRollChangeOcr(frameIndex, rollNumber, value) ==
    /\ page = Ocr
    /\ LET newFrames ==
               IF frames = NoFrames THEN frames
               ELSE IF returnsDetail(frames, frameIndex, rollNumber, value) THEN frames
               ELSE setFramesOcr(frames, frameIndex, rollNumber,
                                 numValueDetail(frames, frameIndex, rollNumber, value))
       IN  /\ frames' = newFrames
           /\ lastCall' = [op |-> "edit", frameIndex |-> frameIndex,
                           changed |-> newFrames # frames, bowler |-> << >>]
    /\ UNCHANGED page

NextOcr ==
    \/ \E bowler \in DetectedBowlers : handleBowlerSelect(bowler)
    \/ \E f \in OcrEditFrames, r \in 1..3, v \in InputStrings : handleRollChangeOcr(f, r, v)

SpecOcr == InitOcr /\ [][NextOcr]_vars

----------------------------------------------------------------------------
(* validateRoll called on its own *)

NoCall ==
    [roll |-> null, frameIndex |-> null, rollNumber |-> null,
     previousRoll |-> null, result |-> FALSE]

ProbedRolls == (0 - RollMargin)..(10 + RollMargin)
PriorRolls == {null} \cup AllRolls

InitValidate ==
    /\ page = "validator"
    /\ frames = InitialFrames
    /\ lastCall = NoCall

\* One call of validateRoll (bowling.ts 181-212) with arguments of the
\* declared types.
callValidateRoll(roll, frameIndex, rollNumber, previousRoll) ==
    /\ lastCall = NoCall
    /\ lastCall' = [roll |-> roll, frameIndex |-> frameIndex, rollNumber |-> rollNumber,
                    previousRoll |-> previousRoll,
                    result |-> validateRoll(roll, frameIndex, rollNumber, previousRoll)]
    /\ UNCHANGED <<page, frames>>

NextValidate ==
    \E roll \in ProbedRolls, f \in FrameIdx, n \in 1..3, prev \in PriorRolls :
        callValidateRoll(roll, f, n, prev)

SpecValidate == InitValidate /\ [][NextValidate]_vars

----------------------------------------------------------------------------
(* Bowling rules, stated on the rolls alone *)

\* The rolls of one frame are legal: balls are bowled in order, a strike
\* ends a frame below the tenth, two balls of one rack knock down at most
\* ten pins, and the tenth frame gets a third ball only after a strike or
\* a spare.
LegalFrame(frame, i) ==
    /\ frame.firstRoll = null => frame.secondRoll = null
    /\ frame.secondRoll = null => frame.thirdRoll = null
    /\ frame.firstRoll # null /\ frame.firstRoll < 10 /\ frame.secondRoll # null
          => frame.firstRoll + frame.secondRoll <= 10
    /\ i < 9 => /\ frame.thirdRoll = null
                /\ frame.firstRoll = 10 => frame.secondRoll = null
    /\ i = 9 /\ frame.thirdRoll # null
          => /\ frame.firstRoll = 10 \/ frame.firstRoll + frame.secondRoll = 10
             /\ frame.firstRoll = 10 /\ frame.secondRoll < 10
                   => frame.secondRoll + frame.thirdRoll <= 10

LegalGame(fs) == \A i \in FrameIdx : LegalFrame(fs[i], i)

\* The first and the second ball bowled after frame i (i in 0..8), null
\* when not recorded.
NextBall1(fs, i) == fs[i + 1].firstRoll
NextBall2(fs, i) ==
    IF fs[i + 1].firstRoll = 10
    THEN IF i = 8 THEN fs[9].secondRoll ELSE fs[i + 2].firstRoll
    ELSE fs[i + 1].secondRoll

StrikeRolls(frame) == frame.firstRoll = 10
SpareRolls(frame) ==
    /\ frame.firstRoll # null /\ frame.firstRoll < 10 /\ frame.secondRoll # null
    /\ frame.firstRoll + frame.secondRoll = 10

\* The tenth frame has all the balls its opening entitles it to.
TenthTerminal(frame) ==
    /\ frame.firstRoll # null /\ frame.secondRoll # null
    /\ (StrikeRolls(frame) \/ SpareRolls(frame)) => frame.thirdRoll # null

\* The pins of the balls bowled in the tenth frame, by its own terminal rule.
TenthPins(frame) ==
    IF StrikeRolls(frame) \/ SpareRolls(frame)
    THEN frame.firstRoll + frame.secondRoll + frame.thirdRoll
    ELSE frame.firstRoll + frame.secondRoll

\* A frame is finished: a strike or two balls below the tenth frame, the
\* terminal condition in the tenth.
FrameComplete(frame, i) ==
    IF i = 9 THEN TenthTerminal(frame)
    ELSE frame.firstRoll = 10 \/ (frame.firstRoll # null /\ frame.secondRoll # null)

\* The rolls were entered in bowling order: a frame is begun only after
\* the frame before it is finished.
InBowlingOrder(fs) ==
    \A i \in 1..9 : fs[i].firstRoll # null => FrameComplete(fs[i - 1], i - 1)

Min(a, b) == IF a < b THEN a ELSE b

\* A legal way to finish a frame: every ball still to be bowled knocks
\* down `pins` pins, or what is left standing if that is fewer.
completeFrameWith(frame, i, pins) ==
    LET first == IF frame.firstRoll = null THEN pins ELSE frame.firstRoll
        second == IF first = 10 /\ i < 9 THEN null
                  ELSE IF frame.secondRoll # null THEN frame.secondRoll
                  ELSE IF first = 10 THEN pins
                  ELSE Min(pins, 10 - first)
        third == IF i < 9 \/ (first # 10 /\ first + second # 10) THEN null
                 ELSE IF frame.thirdRoll # null THEN frame.thirdRoll
                 ELSE IF first = 10 /\ second < 10 THEN Min(pins, 10 - second)
                 ELSE pins
    IN  [EmptyFrame EXCEPT !.firstRoll = first, !.secondRoll = second, !.thirdRoll = third]

completeWith(fs, pins) == [i \in FrameIdx |-> completeFrameWith(fs[i], i, pins)]

\* The final score of a finished game.
FinalScore(fs) == getGameStateFromFrames(fs)[9].score

----------------------------------------------------------------------------
(* Claims *)

C4_ResolvedPrefix ==
    \A i \in 1..9 : gameState[i].score # null => gameState[i - 1].score # null

\* C5 (as claimed): the cumulative score of a resolved frame is the
\* cumulative score of the frame right before it plus its own frameScore.
C5_Cumulative ==
    \A i \in FrameIdx :
        gameState[i].score # null =>
            IF i = 0 THEN gameState[i].score = gameState[i].frameScore
            ELSE /\ gameState[i - 1].score # null
                 /\ gameState[i].score = gameState[i - 1].score + gameState[i].frameScore

\* The rolls of fs in frames that carry no stored classification or score.
rollsOnly(fs) ==
    [i \in FrameIdx |->
        [EmptyFrame EXCEPT !.firstRoll = fs[i].firstRoll,
                           !.secondRoll = fs[i].secondRoll,
                           !.thirdRoll = fs[i].thirdRoll]]

\* C6 (as claimed): the resolution depends on the rolls only; the frames
\* state of the page and the same rolls without stored isStrike, isSpare,
\* isOpen, score and frameScore resolve to the same classification,
\* frameScore and score in every frame.
C6_RollsOnly ==
    \A i \in FrameIdx :
        LET fromRolls == getGameStateFromFrames(rollsOnly(frames))[i] IN
        /\ gameState[i].isStrike = fromRolls.isStrike
        /\ gameState[i].isSpare = fromRolls.isSpare
        /\ gameState[i].isOpen = fromRolls.isOpen
        /\ gameState[i].frameScore = fromRolls.frameScore
        /\ gameState[i].score = fromRolls.score

\* C7 (as claimed): on the frame-by-frame page, for a legal game entered in
\* bowling order, the maximum shown (calculateMaxScore of the resolved
\* state and the first incomplete frame) is at least the final score of
\* every legal way of finishing the game.
C7_MaxIsUpperBound ==
    (page = FrameByFrame /\ LegalGame(frames) /\ InBowlingOrder(frames)) =>
        \A pins \in AllRolls : maxScore >= FinalScore(completeWith(frames, pins))

\* C8 (as claimed): in frames 0..8 a strike has no second roll and two
\* recorded rolls sum to at most 10.
C8_FramePins ==
    \A i \in 0..8 :
        /\ frames[i].firstRoll = 10 => frames[i].secondRoll = null
        /\ (frames[i].firstRoll # null /\ frames[i].firstRoll # 10 /\ frames[i].secondRoll # null)
              => frames[i].firstRoll + frames[i].secondRoll <= 10

\* C9 (as claimed): the tenth frame holds a third roll only after a strike
\* or a spare.
C9_ThirdRoll ==
    frames[9].thirdRoll # null =>
        \/ frames[9].firstRoll = 10
        \/ /\ frames[9].firstRoll # null /\ frames[9].secondRoll # null
           /\ frames[9].firstRoll + frames[9].secondRoll = 10

\* C10: a handleRollChange call whose roll is out of range or refused by
\* validateRoll leaves every roll of every frame as it was.
C10_RejectedUnchanged ==
    [][lastCall' \in {"out_of_range", "invalid"} => frames' = frames]_vars

\* validateRoll has just refused a second roll of a frame that holds a
\* first roll.
C10_Witness ==
    /\ lastCall = "invalid"
    /\ \E i \in EditFrames : frames[i].firstRoll = 7 /\ frames[i].secondRoll = null

\* C11 (as claimed): for roll position 2 in a frame 0..8 validateRoll
\* returns true exactly when the prior roll exists, is below 10 and the
\* value lies in 0..10 - prior; it refuses every value after a prior 10.
C11_SecondRoll ==
    (lastCall.rollNumber = 2 /\ lastCall.frameIndex < 9) =>
        (lastCall.result <=>
            /\ lastCall.previousRoll # null
            /\ lastCall.previousRoll < 10
            /\ 0 <= lastCall.roll
            /\ lastCall.roll <= 10 - lastCall.previousRoll)

\* C12 (as claimed): for roll position 3 validateRoll returns true only in
\* frame index 9; below frame index 9 it returns false for every value.
\* (validateRoll is handed one prior roll, so the claim's further condition
\* on the first two rolls has no counterpart in its arguments.)
C12_ThirdRoll ==
    (lastCall.rollNumber = 3 /\ lastCall.result) => lastCall.frameIndex = 9

\* C13: validateRoll returns false for every value below 0 or above 10,
\* whatever the frame, the roll position and the prior roll, and for roll
\* position 1 it returns true exactly for the values 0..10.
C13_Range ==
    lastCall # NoCall =>
        /\ (lastCall.roll < 0 \/ lastCall.roll > 10) => ~lastCall.result
        /\ lastCall.rollNumber = 1 =>
              (lastCall.result <=> (0 <= lastCall.roll /\ lastCall.roll <= 10))

\* validateRoll has refused 11 as a first roll.
C13_Witness ==
    /\ lastCall.rollNumber = 1 /\ lastCall.roll = 11
    /\ ~lastCall.result

\* Every frame holds all its balls.
GameComplete == \A i \in FrameIdx : FrameComplete(frames[i], i)

\* All twelve balls are strikes.
TwelveStrikes ==
    /\ \A i \in 0..8 : frames[i].firstRoll = 10
    /\ frames[9].firstRoll = 10 /\ frames[9].secondRoll = 10 /\ frames[9].thirdRoll = 10

C15_NonDecreasing ==
    LET gs == gameState IN
    \A i \in FrameIdx, j \in FrameIdx :
        (i < j /\ gs[i].score # null /\ gs[j].score # null) => gs[i].score <= gs[j].score

\* C16: getGameStateFromFrames is idempotent: fed its own output, it returns
\* that output unchanged, frameScore and score of every frame included.
\* (That the same input resolves to the same output twice holds of any
\* operator; the function reads nothing but its argument.)
C16_Idempotent == getGameStateFromFrames(gameState) = gameState

\* An output with a resolved frame, which the second resolution skips, and
\* a frame that holds a roll and is still unresolved.
C16_Witness ==
    LET gs == gameState IN
    /\ \E i \in FrameIdx : gs[i].score # null /\ gs[i].frameScore # null
    /\ \E i \in FrameIdx : gs[i].firstRoll # null /\ gs[i].score = null
    /\ getGameStateFromFrames(gs) = gs

AllResolved(gs) == \A i \in FrameIdx : gs[i].score # null

\* C18: once all ten frames are complete and resolved, calculateMaxScore
\* returns the cumulative score of frame 9, both with the index the page
\* computes for such a game, 10, and with index 9.
C18_FinalMax ==
    LET gs == gameState IN
    (GameComplete /\ AllResolved(gs)) =>
        /\ currentFrame = 10
        /\ calculateMaxScore(gs, 10) = gs[9].score
        /\ calculateMaxScore(gs, 9) = gs[9].score

\* A finished game other than the perfect one, resolved in every frame, with
\* the maximum equal to its final score.
C18_Witness ==
    LET gs == gameState IN
    /\ GameComplete /\ AllResolved(gs) /\ ~TwelveStrikes
    /\ gs[0].score # gs[9].score
    /\ maxScore = gs[9].score

\* What the claim gives for calculateMaxScore with currentFrame = 9, `base`
\* being the cumulative score through frame 8; null where it says nothing.
C19_Claimed(frame10, base) ==
    IF frame10.firstRoll = null THEN base + 30
    ELSE IF frame10.firstRoll = 10
    THEN IF frame10.secondRoll = null \/ frame10.thirdRoll = null THEN base + 30 ELSE null
    ELSE IF frame10.secondRoll = null THEN base + 20
    ELSE IF frame10.firstRoll + frame10.secondRoll = 10
    THEN IF frame10.thirdRoll = null THEN base + 20 ELSE null
    ELSE base + frame10.firstRoll + frame10.secondRoll

\* The same with the strike case split: an opening strike alone leaves
\* base + 30, an opening strike and a second ball leave base + 10 + second
\* ball + 10.
C19_Amended(frame10, base) ==
    IF frame10.firstRoll = 10 /\ frame10.secondRoll # null /\ frame10.thirdRoll = null
    THEN base + 10 + frame10.secondRoll + 10
    ELSE C19_Claimed(frame10, base)

\* Frames 0..8 are finished and frame 8 has its cumulative score.
OnlyTenthLeft(gs) ==
    /\ \A i \in 0..8 : FrameComplete(frames[i], i)
    /\ gs[8].score # null

ScoresFromRolls ==
    LET gs == gameState
        fromRolls == getGameStateFromFrames(rollsOnly(frames))
    IN  \A i \in FrameIdx : gs[i].score = fromRolls[i].score

\* The frames state right after loadGame, for every stored game.
LoadedGames == {[i \in FrameIdx |-> loadedFrame(data[i])] : data \in StoredGames}

\* C20 (as claimed): after the user has edited a roll of a stored game on
\* the game-detail page (the frames are no longer those of a game as loaded,
\* nor empty), the cumulative scores in gameState are those of resolving
\* the current rolls alone.
C20_EditRescores ==
    (page = Detail /\ lastCall # "none" /\ frames # InitialFrames /\ frames \notin LoadedGames)
        => ScoresFromRolls

\* The three rolls of a frame.
rollsOf(frame) == <<frame.firstRoll, frame.secondRoll, frame.thirdRoll>>

\* C21 (as claimed): on the OCR review page, once the user has edited a
\* roll of a frame, a following handleBowlerSelect (for any detected bowler)
\* leaves the rolls of that frame as the user set them.
C21_EditsKept ==
    [][(lastCall.op = "edit" /\ lastCall.changed /\ lastCall'.op = "select")
          => rollsOf(frames'[lastCall.frameIndex]) = rollsOf(frames[lastCall.frameIndex])]_vars

\* The points frame i adds on a score sheet: its cumulative total minus the
\* total of the frame before it.
deltaOf(frameScores, i) == frameScores[i] - (IF i > 0 THEN frameScores[i - 1] ELSE 0)

\* C22 (as claimed): right after a bowler is selected whose sheet gave the
\* cumulative totals only, every frame is guessed from its point delta: a
\* delta of 20 or more gives a strike (firstRoll 10), a delta of 10 a spare
\* with the rolls 5 and 5, and a delta below 10 an open frame whose two rolls
\* sum to the delta.
C22_DeltaMapping ==
    (lastCall.op = "select" /\ ~hasCompleteIndividualBalls(lastCall.bowler)) =>
        \A i \in FrameIdx :
            LET delta == deltaOf(lastCall.bowler.frameScores, i)
                frame == frames[i]
            IN  /\ delta >= 20 => frame.firstRoll = 10
                /\ delta = 10 => (frame.firstRoll = 5 /\ frame.secondRoll = 5)
                /\ (delta >= 0 /\ delta < 10) =>
                      /\ frame.firstRoll # null /\ frame.secondRoll # null
                      /\ frame.firstRoll + frame.secondRoll = delta

\* C23 (as claimed): in every output of getGameStateFromFrames a frame has
\* no score exactly when it has no frameScore.
C23_ScoreIffFrameScore ==
    LET gs == gameState IN
    \A i \in FrameIdx : (gs[i].score = null) <=> (gs[i].frameScore = null)

\* C24 (as claimed): whenever handleSave of the frame-by-frame page has
\* inserted a game, whatever edits came before, the score of the row, which
\* is getCurrentScore(), is the cumulative score of frame 9 of gameState.
C24_SavedScore ==
    lastCall = "inserted" =>
        LET gs == gameState IN
        /\ gs[9].score # null
        /\ getCurrentScore(gs) = gs[9].score

\* The copy of the input that the scoring loop starts from (lines 230-263).
classifiedFrames == [i \in FrameIdx |-> classifyFrame(frames[i], i)]

C26_NoSkip ==
    LET gs == gameState IN
    \A i \in 0..8 :
        (/\ gs[i].isStrike
         /\ \/ gs[i + 1].firstRoll = null
            \/ gs[i + 1].firstRoll # 10 /\ gs[i + 1].secondRoll = null)
        => gs[i].score = null /\ gs[i].frameScore = null

\* C27 (as claimed): after any sequence of edits, a frame index 9 opened with
\* a strike whose second ball s is below 10 holds a third ball of at most
\* 10 - s.
C27_ThirdBallOnRack ==
    LET tenth == frames[9] IN
    (/\ tenth.firstRoll = 10
     /\ tenth.secondRoll # null
     /\ tenth.secondRoll < 10
     /\ tenth.thirdRoll # null)
    => tenth.thirdRoll <= 10 - tenth.secondRoll

----------------------------------------------------------------------------
(* The exported helper calculateFrameScore, bowling.ts 84-176 *)

\* gameState.slice(i + 1) as a sequence: its element j (from 0) is at j + 1.
nextFramesOf(gs, i) == [k \in 1..(9 - i) |-> gs[i + k]]

\* Lines 129-157: the for-of loop over nextFrames, j the index of nextFrame
\* (what nextFrames.indexOf(nextFrame) returns, the frames being distinct
\* objects).  nextFrames[j + 1] is undefined past the end of the array.
RECURSIVE collectBonus(_, _, _, _)
collectBonus(nextFrames, j, rollsCollected, bonusTotal) ==
    IF j >= Len(nextFrames) \/ rollsCollected >= 2 THEN bonusTotal
    ELSE LET nextFrame == nextFrames[j + 1] IN
         IF nextFrame.firstRoll # null
         THEN LET b1 == bonusTotal + nextFrame.firstRoll
                  r1 == rollsCollected + 1
              IN  IF r1 >= 2 THEN b1
                  ELSE IF nextFrame.isStrike
                  THEN IF j + 1 >= Len(nextFrames) THEN b1
                       ELSE LET frameAfterNext == nextFrames[j + 2] IN
                            IF frameAfterNext.firstRoll # null
                            THEN b1 + frameAfterNext.firstRoll
                            ELSE IF frameAfterNext.secondRoll # null /\ ~frameAfterNext.isStrike
                            THEN b1 + frameAfterNext.secondRoll
                            ELSE b1
                  ELSE IF nextFrame.secondRoll # null
                  THEN collectBonus(nextFrames, j + 1, r1 + 1, b1 + nextFrame.secondRoll)
                  ELSE collectBonus(nextFrames, j + 1, r1, b1)
         ELSE collectBonus(nextFrames, j + 1, rollsCollected, bonusTotal)

\* Lines 84-176, the frameScore field of the result.
calculateFrameScore(frame, nextFrames, frameIndex) ==
    IF frameIndex = 9
    THEN IF frame.firstRoll # null /\ frame.secondRoll # null /\ frame.thirdRoll # null
         THEN IF frame.isStrike THEN 10 + OrZero(frame.secondRoll) + OrZero(frame.thirdRoll)
              ELSE IF frame.isSpare THEN 10 + OrZero(frame.thirdRoll)
              ELSE OrZero(frame.firstRoll) + OrZero(frame.secondRoll)
         ELSE IF frame.firstRoll # null /\ frame.secondRoll # null /\ frame.isOpen
         THEN OrZero(frame.firstRoll) + OrZero(frame.secondRoll)
         ELSE 0
    ELSE IF frame.isStrike THEN 10 + collectBonus(nextFrames, 0, 0, 0)
         ELSE IF frame.isSpare
         THEN IF Len(nextFrames) > 0 /\ nextFrames[1].firstRoll # null
              THEN 10 + nextFrames[1].firstRoll ELSE 10
         ELSE IF frame.isOpen /\ frame.firstRoll # null /\ frame.secondRoll # null
         THEN frame.firstRoll + frame.secondRoll
         ELSE 0

\* C28 (as claimed): in a legal game, for every frame i the resolver has
\* scored, calculateFrameScore(frame i, the frames after i, i) returns the
\* frameScore the resolver gave frame i, a strike in frame index 8 followed by
\* a strike-opened frame index 9 included.
C28_HelperAgrees ==
    LET gs == gameState IN
    \A i \in FrameIdx :
        gs[i].score # null
        => calculateFrameScore(gs[i], nextFramesOf(gs, i), i) = gs[i].frameScore

\* What the effect of frame-by-frame/page.tsx 39-74 displays for frames fs.
maxScoreOf(fs) ==
    calculateMaxScore(getGameStateFromFrames(fs),
                      incompleteFrameFrom(getGameStateFromFrames(fs), 0))

\* The frames after the next roll of the game, value, has been entered.
framesAfterBowl(value) ==
    IF currentFrame >= 10 \/ returnsFrameByFrame(value) THEN frames
    ELSE setFramesFrameByFrame(frames, currentFrame,
                               nextRollNumber(frames[currentFrame]),
                               numValueFrameByFrame(value))

\* C29 (as claimed): with legal rolls entered one at a time in bowling order,
\* the displayed maximum after the next roll is never above the displayed
\* maximum before it.
C29_MaxNeverIncreases ==
    \A value \in BowlStrings :
        maxScoreOf(framesAfterBowl(value)) <= maxScore

\* C30 (as claimed): handleSave inserts a game only when all ten frames are
\* complete; called while some frame is incomplete it refuses with 'Please
\* complete the game before saving' and goes no further.
C30_SaveOnlyComplete ==
    (/\ lastCall \in {"refused_incomplete", "refused_zero", "no_user",
                      "insert_error", "inserted"}
     /\ ~GameComplete)
    => lastCall = "refused_incomplete"

====
